---- MODULE Spec2Model ----
(***************************************************************************)
(* Model of pylifttk/normalizations.py: the unit-normalization resolver.   *)
(*                                                                         *)
(*   normalizations            module-level configuration, read once       *)
(*   _find_normalization_path  graph construction + recursive dfs          *)
(*   normalize                 path walk with apply_direct_normalization   *)
(*                                                                         *)
(* Python values are encoded as follows.  A token or unit name is a        *)
(* string.  The Python value None is the string "None" where a token is    *)
(* expected and the one-element tuple <<"None">> where a list of unit      *)
(* names is expected.  A raised TypeError is "TypeError" / <<"TypeError">>.*)
(* A dict is the sequence of its <<key, value>> items in insertion order,  *)
(* with pairwise distinct keys.                                            *)
(***************************************************************************)
EXTENDS Integers, Sequences, FiniteSets, TLC

VARIABLES normalizations, call, pc, idx, src, dst, graph, stack, ret

vars == <<normalizations, call, pc, idx, src, dst, graph, stack, ret>>

----------------------------------------------------------------------------
(* Bounds of the model.                                                    *)

\* most records of a configuration whose mappings range over all of Mappings
MaxRecords == 2

\* most records of a configuration searched step by step, or walked over
\* ChainMappings
MaxDfsRecords == 3

Units == {"F", "C", "K"}

Tokens == {"32", "0"}

----------------------------------------------------------------------------
(* Python values.                                                          *)

None == "None"

TypeError == "TypeError"

NonePath == <<"None">>

TypeErrorPath == <<"TypeError">>

InSeq(x, s) == \E j \in 1..Len(s) : s[j] = x

SeqsUpTo(S, n) == UNION {[1..m -> S] : m \in 0..n}

\* dicts over Tokens: item sequences with pairwise distinct keys
Mappings ==
    {m \in SeqsUpTo(Tokens \X Tokens, Cardinality(Tokens)) :
        \A j, k \in 1..Len(m) : j # k => m[j][1] # m[k][1]}

NormalizationRecord(U, M) == [source : U, destination : U, mapping : M]

----------------------------------------------------------------------------
(* _find_normalization_path                                                *)

\* graph.get(u, list()) for every u: no key is the empty list
EmptyGraph == [u \in Units |-> <<>>]

\* lines 24-29: one iteration of the graph-building loop
AddEdge(g, r) ==
    LET g1 == [g EXCEPT ![r.source] = Append(@, r.destination)]
    IN  [g1 EXCEPT ![r.destination] = Append(@, r.source)]

RECURSIVE BuildGraph(_, _)
\* lines 21-29: the graph after the first n records
BuildGraph(norms, n) ==
    IF n = 0 THEN EmptyGraph ELSE AddEdge(BuildGraph(norms, n - 1), norms[n])

\* lines 24-25 rebind the parameters src and dst on every iteration
SrcAfterLoop(norms, s) == IF Len(norms) = 0 THEN s ELSE norms[Len(norms)].source

DstAfterLoop(norms, d) == IF Len(norms) = 0 THEN d ELSE norms[Len(norms)].destination

RECURSIVE dfs(_, _, _, _)
RECURSIVE dfs_loop(_, _, _, _, _)
\* lines 31-47
dfs(g, start, end, path) ==
    IF start = end
    THEN IF path = NonePath THEN TypeErrorPath ELSE path \o <<end>>
    ELSE IF path # NonePath /\ InSeq(start, path)
    THEN NonePath
    ELSE dfs_loop(g, g[start], 1, end,
                  (IF path = NonePath THEN <<>> ELSE path) \o <<start>>)

\* lines 44-47: the loop over possibilities from the k-th on
dfs_loop(g, possibilities, k, end, path) ==
    IF k > Len(possibilities)
    THEN NonePath
    ELSE LET ret_path == dfs(g, possibilities[k], end, path)
         IN  IF ret_path # NonePath
             THEN ret_path
             ELSE dfs_loop(g, possibilities, k + 1, end, path)

\* lines 10-49
find_normalization_path(norms, s, d) ==
    dfs(BuildGraph(norms, Len(norms)),
        SrcAfterLoop(norms, s), DstAfterLoop(norms, d), NonePath)

----------------------------------------------------------------------------
(* normalize                                                               *)

\* line 71: mapping.get(word)
MappingGet(mapping, word) ==
    IF \E j \in 1..Len(mapping) : mapping[j][1] = word
    THEN mapping[CHOOSE j \in 1..Len(mapping) : mapping[j][1] = word][2]
    ELSE None

RECURSIVE ScanItemsLast(_, _, _)
\* ScanItems keeping the last item whose value is word instead of the first
ScanItemsLast(mapping, word, j) ==
    IF j > Len(mapping) THEN None
    ELSE IF ScanItemsLast(mapping, word, j + 1) # None
    THEN ScanItemsLast(mapping, word, j + 1)
    ELSE IF mapping[j][2] = word THEN mapping[j][1]
    ELSE None

RECURSIVE ScanItems(_, _, _)
\* lines 77-79: scan of mapping.items() from the j-th item on; None when the
\* loop ends without returning
ScanItems(mapping, word, j) ==
    IF j > Len(mapping) THEN None
    ELSE IF mapping[j][2] = word THEN mapping[j][1]
    ELSE ScanItems(mapping, word, j + 1)

RECURSIVE ApplyFrom(_, _, _, _, _)
\* lines 65-79: the loop over normalizations from the n-th record on
ApplyFrom(norms, n, word, s, d) ==
    IF n > Len(norms) THEN None
    ELSE LET r == norms[n]
         IN  IF s = r.source /\ d = r.destination
             THEN MappingGet(r.mapping, word)
             ELSE IF d = r.source /\ s = r.destination
                       /\ ScanItems(r.mapping, word, 1) # None
             THEN ScanItems(r.mapping, word, 1)
             ELSE ApplyFrom(norms, n + 1, word, s, d)

\* lines 63-79
apply_direct_normalization(norms, word, s, d) == ApplyFrom(norms, 1, word, s, d)

RECURSIVE Walk(_, _, _, _)
\* lines 85-89: result after the hops i, i+1, ... of the path
Walk(norms, path, i, result) ==
    IF i > Len(path) - 1 THEN result
    ELSE Walk(norms, path, i + 1,
              apply_direct_normalization(norms, result, path[i], path[i + 1]))

\* EchoOr without the test of echo_word
EchoOrUnconditional(result, word, echo_word) ==
    IF result = None THEN word ELSE result

\* lines 91-94
EchoOr(result, word, echo_word) ==
    IF result = None /\ echo_word THEN word ELSE result

\* lines 52-94
normalize(norms, word, s, d, echo_word) ==
    LET normalization_path == find_normalization_path(norms, s, d)
    IN  IF normalization_path = TypeErrorPath THEN TypeError
        ELSE IF normalization_path = NonePath THEN None
        ELSE EchoOr(Walk(norms, normalization_path, 1, word), word, echo_word)

----------------------------------------------------------------------------
(* The library as a state machine.  The configuration is fixed at import;  *)
(* a behaviour is one call of a function on it.  Calls share no state, so  *)
(* one call per behaviour covers every call the program can make.          *)

Idle == [op |-> "idle", word |-> None, src |-> None, dst |-> None,
         echo_word |-> FALSE, path |-> NonePath, result |-> None]

DfsIdle ==
    /\ pc = "idle"
    /\ idx = 0
    /\ src = None
    /\ dst = None
    /\ graph = EmptyGraph
    /\ stack = <<>>
    /\ ret = NonePath

DfsUnchanged == UNCHANGED <<normalizations, pc, idx, src, dst, graph, stack, ret>>

Init ==
    /\ normalizations \in SeqsUpTo(NormalizationRecord(Units, Mappings), MaxRecords)
    /\ call = Idle
    /\ DfsIdle

\* _find_normalization_path(s, d), lines 10-49
FindPath(s, d) ==
    /\ call.op = "idle"
    /\ call' = [Idle EXCEPT !.op = "find_path", !.src = s, !.dst = d,
                            !.path = find_normalization_path(normalizations, s, d)]
    /\ DfsUnchanged

\* normalize(word, s, d, echo_word), lines 52-94
Normalize(word, s, d, echo_word) ==
    /\ call.op = "idle"
    /\ call' = [op |-> "normalize", word |-> word, src |-> s, dst |-> d,
                echo_word |-> echo_word,
                path |-> find_normalization_path(normalizations, s, d),
                result |-> normalize(normalizations, word, s, d, echo_word)]
    /\ DfsUnchanged

\* apply_direct_normalization(word, s, d), lines 63-79
ApplyDirect(word, s, d) ==
    /\ call.op = "idle"
    /\ call' = [Idle EXCEPT !.op = "apply_direct", !.word = word, !.src = s, !.dst = d,
                            !.result = apply_direct_normalization(normalizations, word, s, d)]
    /\ DfsUnchanged

Next ==
    \/ \E s, d \in Units : FindPath(s, d)
    \/ \E word \in Tokens, s, d \in Units, echo_word \in BOOLEAN :
           Normalize(word, s, d, echo_word)

Spec == Init /\ [][Next]_vars

----------------------------------------------------------------------------
(* normalize over configurations of up to MaxDfsRecords records, long      *)
(* enough for paths of several hops.                                       *)

\* every record carries the mapping {"32": "0"}: a hop maps "32" forward and
\* "0" in reverse, and fails on the other token
ChainMappings == {<< <<"32", "0">> >>}

InitChain ==
    /\ normalizations \in
           SeqsUpTo(NormalizationRecord(Units, ChainMappings), MaxDfsRecords)
    /\ call = Idle
    /\ DfsIdle

NextChain ==
    \E word \in Tokens, s, d \in Units, echo_word \in BOOLEAN :
        Normalize(word, s, d, echo_word)

SpecChain == InitChain /\ [][NextChain]_vars

----------------------------------------------------------------------------
(* apply_direct_normalization as a function of the configuration and its   *)
(* arguments.  The word of a hop is a token or, after a failed hop, None.  *)

DirectUnits == {"F", "C"}

InitDirect ==
    /\ normalizations \in
           SeqsUpTo(NormalizationRecord(DirectUnits, Mappings), MaxRecords)
    /\ call = Idle
    /\ DfsIdle

NextDirect ==
    \E word \in Tokens \cup {None}, s, d \in DirectUnits : ApplyDirect(word, s, d)

SpecDirect == InitDirect /\ [][NextDirect]_vars

----------------------------------------------------------------------------
(* _find_normalization_path step by step: one step per iteration of the    *)
(* graph-building loop and per entry to, iteration of and return from dfs. *)
(* A frame of the stack is one activation of dfs: its start, its path and  *)
(* the position k of its loop over graph.get(start, list()).               *)

Top == stack[Len(stack)]

Pop == SubSeq(stack, 1, Len(stack) - 1)

InitDfs ==
    /\ normalizations \in
           SeqsUpTo(NormalizationRecord(Units, ChainMappings), MaxDfsRecords)
    /\ \E s, d \in Units :
           /\ call = [Idle EXCEPT !.op = "find_path", !.src = s, !.dst = d]
           /\ src = s
           /\ dst = d
    /\ pc = "build"
    /\ idx = 1
    /\ graph = EmptyGraph
    /\ stack = <<>>
    /\ ret = NonePath

\* lines 23-29: one iteration of the loop over normalizations
BuildStep ==
    /\ pc = "build"
    /\ idx <= Len(normalizations)
    /\ src' = normalizations[idx].source
    /\ dst' = normalizations[idx].destination
    /\ graph' = AddEdge(graph, normalizations[idx])
    /\ idx' = idx + 1
    /\ UNCHANGED <<normalizations, call, pc, stack, ret>>

\* line 49: dfs(start=src, end=dst)
CallDfs ==
    /\ pc = "build"
    /\ idx > Len(normalizations)
    /\ stack' = <<[start |-> src, path |-> NonePath, k |-> 0]>>
    /\ pc' = "enter"
    /\ UNCHANGED <<normalizations, call, idx, src, dst, graph, ret>>

\* lines 33-34 with path None: None + [end] raises TypeError, which no
\* caller catches
DfsRaise ==
    /\ pc = "enter"
    /\ Top.start = dst
    /\ Top.path = NonePath
    /\ pc' = "raised"
    /\ stack' = <<>>
    /\ call' = [call EXCEPT !.path = TypeErrorPath]
    /\ UNCHANGED <<normalizations, idx, src, dst, graph, ret>>

\* lines 33-34: return path + [end]
DfsFound ==
    /\ pc = "enter"
    /\ Top.start = dst
    /\ Top.path # NonePath
    /\ ret' = Top.path \o <<dst>>
    /\ stack' = Pop
    /\ pc' = "return"
    /\ UNCHANGED <<normalizations, call, idx, src, dst, graph>>

\* lines 38-39: start is on the path already
DfsRevisit ==
    /\ pc = "enter"
    /\ Top.start # dst
    /\ Top.path # NonePath
    /\ InSeq(Top.start, Top.path)
    /\ ret' = NonePath
    /\ stack' = Pop
    /\ pc' = "return"
    /\ UNCHANGED <<normalizations, call, idx, src, dst, graph>>

\* DfsExpand without the test of lines 38-39
DfsExpandVisited ==
    /\ pc = "enter"
    /\ Top.start # dst
    /\ stack' = [stack EXCEPT ![Len(stack)] =
                    [@ EXCEPT !.path = (IF @ = NonePath THEN <<>> ELSE @)
                                           \o <<Top.start>>,
                              !.k = 1]]
    /\ pc' = "loop"
    /\ UNCHANGED <<normalizations, call, idx, src, dst, graph, ret>>

\* lines 36-42: path = path + [start], then the loop begins
DfsExpand ==
    /\ pc = "enter"
    /\ Top.start # dst
    /\ Top.path = NonePath \/ ~InSeq(Top.start, Top.path)
    /\ stack' = [stack EXCEPT ![Len(stack)] =
                    [@ EXCEPT !.path = (IF @ = NonePath THEN <<>> ELSE @)
                                           \o <<Top.start>>,
                              !.k = 1]]
    /\ pc' = "loop"
    /\ UNCHANGED <<normalizations, call, idx, src, dst, graph, ret>>

\* lines 44-45: the recursive call on the k-th possibility
DfsRecurse ==
    /\ pc = "loop"
    /\ Top.k <= Len(graph[Top.start])
    /\ stack' = Append(stack, [start |-> graph[Top.start][Top.k],
                               path |-> Top.path, k |-> 0])
    /\ pc' = "enter"
    /\ UNCHANGED <<normalizations, call, idx, src, dst, graph, ret>>

\* the loop of lines 44-47 ends: dfs returns None
DfsExhausted ==
    /\ pc = "loop"
    /\ Top.k > Len(graph[Top.start])
    /\ ret' = NonePath
    /\ stack' = Pop
    /\ pc' = "return"
    /\ UNCHANGED <<normalizations, call, idx, src, dst, graph>>

\* lines 46-47 in the caller: a path is returned at once
DfsPropagate ==
    /\ pc = "return"
    /\ stack # <<>>
    /\ ret # NonePath
    /\ stack' = Pop
    /\ UNCHANGED <<normalizations, call, pc, idx, src, dst, graph, ret>>

\* lines 44-46 in the caller: on None the loop goes on
DfsContinue ==
    /\ pc = "return"
    /\ stack # <<>>
    /\ ret = NonePath
    /\ stack' = [stack EXCEPT ![Len(stack)] = [@ EXCEPT !.k = @ + 1]]
    /\ pc' = "loop"
    /\ UNCHANGED <<normalizations, call, idx, src, dst, graph, ret>>

\* line 49: the outermost dfs has returned
ReturnPath ==
    /\ pc = "return"
    /\ stack = <<>>
    /\ call' = [call EXCEPT !.path = ret]
    /\ pc' = "done"
    /\ UNCHANGED <<normalizations, idx, src, dst, graph, stack, ret>>

NextDfs ==
    \/ BuildStep
    \/ CallDfs
    \/ DfsRaise
    \/ DfsFound
    \/ DfsRevisit
    \/ DfsExpand
    \/ DfsRecurse
    \/ DfsExhausted
    \/ DfsPropagate
    \/ DfsContinue
    \/ ReturnPath

\* the interpreter runs the call to its end: a step that can be taken is taken
SpecDfs == InitDfs /\ [][NextDfs]_vars /\ WF_vars(NextDfs)

\* the step-by-step search returns what the recursive definition returns
DfsAgrees ==
    pc \in {"done", "raised"} =>
        call.path = find_normalization_path(normalizations, call.src, call.dst)

----------------------------------------------------------------------------
(* Vocabulary of the properties.                                           *)

IsPath(p) == p # NonePath /\ p # TypeErrorPath

Last(p) == p[Len(p)]

Simple(p) == \A j, k \in 1..Len(p) : j # k => p[j] # p[k]

\* the adjacency lists of the whole configuration
Graph == BuildGraph(normalizations, Len(normalizations))

\* the depth-first search started where the caller asked
RequestedDfs == dfs(Graph, call.src, call.dst, NonePath)

Joins(r, a, b) ==
    \/ r.source = a /\ r.destination = b
    \/ r.source = b /\ r.destination = a

RECURSIVE ReachFrom(_)
\* the units some chain of records joins to a unit of S
ReachFrom(S) ==
    LET T == S \cup {u \in Units : \E n \in 1..Len(normalizations), t \in S :
                                      Joins(normalizations[n], t, u)}
    IN  IF T = S THEN S ELSE ReachFrom(T)

Connected(a, b) == b \in ReachFrom({a})

InRecords(a) ==
    \E n \in 1..Len(normalizations) :
        normalizations[n].source = a \/ normalizations[n].destination = a

\* positions of the items of a mapping whose value is word
ValueHits(mapping, word) == {j \in 1..Len(mapping) : mapping[j][2] = word}

\* the key of the first item of a mapping whose value is word, else None
FirstKeyFor(mapping, word) ==
    IF ValueHits(mapping, word) = {} THEN None
    ELSE mapping[CHOOSE j \in ValueHits(mapping, word) :
                     \A k \in ValueHits(mapping, word) : j <= k][1]

\* the value a mapping gives a key, else None
ValueOf(mapping, key) ==
    IF \E j \in 1..Len(mapping) : mapping[j][1] = key
    THEN (CHOOSE x \in {mapping[j] : j \in 1..Len(mapping)} : x[1] = key)[2]
    ELSE None

----------------------------------------------------------------------------
(* C1 *)

\* C1: find_path(src, dst) returns the path the depth-first search started at
\* the requested src finds first towards the requested dst; a returned path
\* begins with src and ends with dst.  Stated of the calls with src # dst
\* that return.
C1_PathFromRequestedSrc ==
    (/\ call.op = "find_path"
     /\ call.src # call.dst
     /\ call.path # TypeErrorPath) =>
        /\ call.path = RequestedDfs
        /\ IsPath(call.path) =>
               call.path[1] = call.src /\ Last(call.path) = call.dst

----------------------------------------------------------------------------
(* C2 *)

\* C2: over a configuration of one record S -> D with an entry k -> v, k the
\* first key mapped to v, normalize(k, S, D) is v and normalize(v, D, S) is k.
C2_RoundTrip ==
    (/\ call.op = "normalize"
     /\ Len(normalizations) = 1
     /\ normalizations[1].source # normalizations[1].destination) =>
        LET r == normalizations[1]
        IN  \A j \in 1..Len(r.mapping) :
                LET k == r.mapping[j][1]
                    v == r.mapping[j][2]
                IN  FirstKeyFor(r.mapping, v) = k =>
                        /\ (/\ call.word = k
                            /\ call.src = r.source
                            /\ call.dst = r.destination) => call.result = v
                        /\ (/\ call.word = v
                            /\ call.src = r.destination
                            /\ call.dst = r.source) => call.result = k

----------------------------------------------------------------------------
(* C3 *)

RECURSIVE ComposeHops(_, _, _)
\* the per-hop direct conversions along path p from hop j on, applied to w
ComposeHops(p, j, w) ==
    IF j > Len(p) - 1 THEN w
    ELSE ComposeHops(p, j + 1,
             apply_direct_normalization(normalizations, w, p[j], p[j + 1]))

\* C3: when src and dst are joined only through intermediate units,
\* normalize(word, src, dst) is the composition of the direct conversions
\* along the path resolved from src to dst, starting from word.
C3_ChainedConversion ==
    (/\ call.op = "normalize"
     /\ ~call.echo_word
     /\ call.src # call.dst
     /\ \A n \in 1..Len(normalizations) :
            ~Joins(normalizations[n], call.src, call.dst)
     /\ IsPath(RequestedDfs)) =>
        call.result = ComposeHops(RequestedDfs, 1, call.word)

----------------------------------------------------------------------------
(* C4 *)

\* C4: for distinct unit names that no chain of records connects, find_path
\* returns absent and normalize returns absent.  Stated of find_path and of
\* normalize without echo_word, for the calls that return.
C4_Disconnected ==
    (/\ call.src # call.dst
     /\ ~Connected(call.src, call.dst)
     /\ call.path # TypeErrorPath) =>
        /\ call.op = "find_path" => call.path = NonePath
        /\ (call.op = "normalize" /\ ~call.echo_word) => call.result = None

----------------------------------------------------------------------------
(* C5 *)

\* C5: find_path(a, a) returns [a] when a appears in a record, and [a] or
\* absent when it appears in none.
C5_TrivialPath ==
    (call.op = "find_path" /\ call.src = call.dst) =>
        IF InRecords(call.src)
        THEN call.path = <<call.src>>
        ELSE call.path \in {<<call.src>>, NonePath}

----------------------------------------------------------------------------
(* C6 *)

\* C6: on every well-formed configuration find_path and normalize finish
\* with a value and never raise.
C6_NoException ==
    /\ call.op = "find_path" => call.path # TypeErrorPath
    /\ call.op = "normalize" => call.result # TypeError

----------------------------------------------------------------------------
(* C7 *)

RECURSIVE HopOut(_)
\* what the j-th hop of the walk along call.path yields, hop 0 being the word
HopOut(j) ==
    IF j = 0 THEN call.word
    ELSE apply_direct_normalization(normalizations, HopOut(j - 1),
                                    call.path[j], call.path[j + 1])

SomeHopFails == \E j \in 1..(Len(call.path) - 1) : HopOut(j) = None

\* C7: when a path is found but the direct conversion at some hop yields
\* absent, normalize returns absent without echo_word and the original word
\* with it.
C7_FailedHopPropagates ==
    (call.op = "normalize" /\ IsPath(call.path) /\ SomeHopFails) =>
        call.result = (IF call.echo_word THEN call.word ELSE None)

\* a two-hop walk from src to dst whose first hop fails, echoed at the end
C7_Witness ==
    /\ call.op = "normalize"
    /\ IsPath(call.path)
    /\ Len(call.path) = 3
    /\ call.path[1] = call.src
    /\ Last(call.path) = call.dst
    /\ HopOut(1) = None
    /\ call.echo_word
    /\ call.result = call.word

----------------------------------------------------------------------------
(* C8 *)

ForwardDeclared(r, s, d) == r.source = s /\ r.destination = d

ReverseDeclared(r, s, d) == r.source = d /\ r.destination = s /\ s # d

\* the n-th record serves apply_direct(word, s, d) by reverse lookup: it is
\* declared (d, s), word is one of its values, and no earlier record answered
ServedInReverse(n, word, s, d) ==
    /\ ReverseDeclared(normalizations[n], s, d)
    /\ ValueHits(normalizations[n].mapping, word) # {}
    /\ \A m \in 1..(n - 1) :
           /\ ~ForwardDeclared(normalizations[m], s, d)
           /\ ReverseDeclared(normalizations[m], s, d) =>
                  ValueHits(normalizations[m].mapping, word) = {}

\* C8: a reverse lookup served by a record whose mapping sends several keys
\* to word returns the first such key in the mapping's declaration order.
C8_ReverseFirstKey ==
    call.op = "apply_direct" =>
        \A n \in 1..Len(normalizations) :
            ServedInReverse(n, call.word, call.src, call.dst) =>
                \E j \in ValueHits(normalizations[n].mapping, call.word) :
                    /\ call.result = normalizations[n].mapping[j][1]
                    /\ \A k \in ValueHits(normalizations[n].mapping, call.word) :
                           j <= k

\* a reverse lookup of a word that two keys map to has returned the first
C8_Witness ==
    /\ call.op = "apply_direct"
    /\ \E n \in 1..Len(normalizations) :
           /\ ServedInReverse(n, call.word, call.src, call.dst)
           /\ Cardinality(ValueHits(normalizations[n].mapping, call.word)) >= 2
           /\ call.result = normalizations[n].mapping[1][1]
           /\ call.result # normalizations[n].mapping[2][1]

----------------------------------------------------------------------------
(* C9 *)

\* positions of the records declared (s, d) or (d, s)
Matching(s, d) ==
    {n \in 1..Len(normalizations) : Joins(normalizations[n], s, d)}

\* the lookup of word in the first record declared (s, d) or (d, s) alone
FirstMatchOnly(word, s, d) ==
    IF Matching(s, d) = {} THEN None
    ELSE LET n == CHOOSE m \in Matching(s, d) : \A k \in Matching(s, d) : m <= k
             r == normalizations[n]
         IN  IF ForwardDeclared(r, s, d)
             THEN ValueOf(r.mapping, word)
             ELSE FirstKeyFor(r.mapping, word)

\* C9: apply_direct consults only the first record declared (src, dst) or
\* (dst, src); when its lookup fails the result is absent, whatever later
\* records hold.  Stated of the hop of a one-hop normalize.
C9_FirstMatchingRecordOnly ==
    (call.op = "normalize" /\ IsPath(call.path) /\ Len(call.path) = 2) =>
        call.result =
            EchoOr(FirstMatchOnly(call.word, call.path[1], call.path[2]),
                   call.word, call.echo_word)

----------------------------------------------------------------------------
(* C10 *)

\* every path a dfs activation holds, and the path returned, is simple
PathsSimple ==
    /\ \A f \in 1..Len(stack) :
           stack[f].path # NonePath => Simple(stack[f].path)
    /\ IsPath(ret) => Simple(ret)
    /\ IsPath(call.path) => Simple(call.path)

\* the activations that reached their loop expand pairwise distinct nodes
ExpandedOnce ==
    \A f, g \in 1..Len(stack) :
        (f # g /\ stack[f].k > 0 /\ stack[g].k > 0) =>
            stack[f].start # stack[g].start

DfsFinished == pc \in {"done", "raised"}

\* C10: on every configuration, cyclic ones included, the search ends, no
\* node on the in-progress path is expanded again, and every path held or
\* returned is free of repeated unit names.
C10_SearchTerminates == [](PathsSimple /\ ExpandedOnce) /\ <>DfsFinished

\* the search has just refused a neighbour that is on the caller's path
C10_Witness ==
    /\ pc = "return"
    /\ ret = NonePath
    /\ stack # <<>>
    /\ Top.k > 0
    /\ Top.k <= Len(graph[Top.start])
    /\ InSeq(graph[Top.start][Top.k], Top.path)
    /\ Len(Top.path) >= 2

====
